---- MODULE Spec2Model ----
(***************************************************************************)
(* Model of examples/python/notebooks/shop_agent.ipynb:                    *)
(*   call_vector_search  - one HTTP POST to the Vector Search backend      *)
(*   find_shopping_items - the tool that runs a list of queries            *)
(*   test_agent          - the driver that runs an agent to its final      *)
(*                         response                                        *)
(***************************************************************************)
EXTENDS Integers, Sequences, FiniteSets, TLC

(* ------------------------------ bounds --------------------------------- *)
MaxQueries == 2
MaxEvents == 2
MaxRuns == 2

(* ------------------------- program constants --------------------------- *)
RowLimit == 3

QueryStrings == {"A", "B"}
\* items are opaque to the code: two of them, told apart by a number
Items == {1, 2}
StatusCodes == {200, 300, 404}

\* the sequences over S of length at most n
SeqsUpTo(S, n) == UNION {[1..k -> S] : k \in 0..n}

QueryLists == SeqsUpTo(QueryStrings, MaxQueries)
\* the backend is asked for rows = 3 result rows and sends at most as many
ItemLists == SeqsUpTo(Items, RowLimit)

(* ------------------------- Python values ------------------------------- *)
EmptyDict == [k \in {} |-> << >>]
PyNone == [isNone |-> TRUE, dict |-> EmptyDict]
PyDict(d) == [isNone |-> FALSE, dict |-> d]

(* json.dumps(payload): the request body as the ordered members of the    *)
(* JSON object, every scalar in its JSON spelling.                         *)
JsonString(s) == <<"str", s>>
JsonLiteral(s) == <<"lit", s>>
\* the rows argument: an int, or None (the default)
RowsNone == [isNone |-> TRUE, n |-> 0]
Rows(n) == [isNone |-> FALSE, n |-> n]
RowsArguments == {RowsNone} \cup {Rows(n) : n \in 1..RowLimit}

\* as if the payload held str(rows)
JsonRowsAsStr(rows) ==
  IF rows.isNone THEN JsonString("None") ELSE JsonString(ToString(rows.n))

JsonRows(rows) ==
  IF rows.isNone THEN JsonLiteral("null") ELSE JsonLiteral(ToString(rows.n))

Payload(query, rows) ==
  << <<"query", JsonString(query)>>,
     <<"rows", JsonRows(rows)>>,
     <<"dataset_id", JsonString("mercari3m_mm")>>,
     <<"use_dense", JsonLiteral("true")>>,
     <<"use_sparse", JsonLiteral("true")>>,
     <<"rrf_alpha", JsonLiteral("0.5")>>,
     <<"use_rerank", JsonLiteral("true")>> >>

(* The bodies the backend may send: JSON objects given by their ordered    *)
(* members (key, array of items), or text that is not JSON.                *)
JsonBodies ==
  {<< <<"items", s>> >> : s \in ItemLists}
    \cup {<< <<"error", << >> >> >>}
    \cup {<< <<"error", << >> >>, <<"items", <<2>> >> >>}

NoBody == << >>

Responses ==
  {[transport_error |-> TRUE, status_code |-> 0, json |-> FALSE, members |-> NoBody]}
    \cup [transport_error : {FALSE}, status_code : StatusCodes, json : {TRUE}, members : JsonBodies]
    \cup [transport_error : {FALSE}, status_code : StatusCodes, json : {FALSE}, members : {NoBody}]

NoResponse == [transport_error |-> FALSE, status_code |-> 0, json |-> FALSE, members |-> NoBody]

(* response.json(): the dict of the members of the decoded JSON object.    *)
MemberKeys(members) == {members[n][1] : n \in DOMAIN members}
LastIndexOf(members, k) ==
  CHOOSE n \in DOMAIN members :
    /\ members[n][1] = k
    /\ \A m \in DOMAIN members : members[m][1] = k => m <= n
ResponseJson(members) ==
  [k \in MemberKeys(members) |-> members[LastIndexOf(members, k)][2]]

(* response.raise_for_status(): HTTPError for a 4xx or 5xx status.         *)
RaiseForStatus(status_code) == 400 <= status_code /\ status_code < 600

(* What the try block of call_vector_search raises for a response:        *)
(* requests.post a ConnectionError, raise_for_status an HTTPError,         *)
(* response.json a JSONDecodeError; "none" when it raises nothing.         *)
TryBlockRaises(resp) ==
  IF resp.transport_error THEN "ConnectionError"
  ELSE IF RaiseForStatus(resp.status_code) THEN "HTTPError"
  ELSE IF ~resp.json THEN "JSONDecodeError"
  ELSE "none"

\* as if the clause were "except requests.exceptions.HTTPError"
ExceptHTTPErrorOnly(raised) == raised = "HTTPError"

(* except requests.exceptions.RequestException: the classes it catches.    *)
ExceptRequestException(raised) ==
  raised \in {"ConnectionError", "HTTPError", "JSONDecodeError"}

\* as if the function returned {"items": response.json().get("items")} only
CallVectorSearchResultItemsOnly(resp) ==
  IF TryBlockRaises(resp) = "none"
  THEN PyDict([k \in MemberKeys(resp.members) \cap {"items"} |->
                 ResponseJson(resp.members)[k]])
  ELSE PyNone

(* The value call_vector_search returns for a response it got without an   *)
(* exception, and after a caught exception.                                *)
CallVectorSearchResult(resp) ==
  IF TryBlockRaises(resp) = "none" THEN PyDict(ResponseJson(resp.members)) ELSE PyNone

RECURSIVE Reverse(_)
Reverse(s) == IF s = << >> THEN << >> ELSE Append(Reverse(Tail(s)), Head(s))

\* as if the new items were put in front: items[:0] = result["items"]
ItemsExtendInFront(its, res) == res.dict["items"] \o its

\* as if only the items not yet in the batch were added
ItemsExtendUnseen(its, res) ==
  its \o SelectSeq(res.dict["items"], LAMBDA x : \A n \in DOMAIN its : its[n] # x)

\* as if the result list were added back to front
ItemsExtendReversed(its, res) == its \o Reverse(res.dict["items"])

(* items.extend(result["items"])                                           *)
ItemsExtend(its, res) == its \o res.dict["items"]

(* ------------------------------ state ---------------------------------- *)
VARIABLES
  tool_pc,        \* position in find_shopping_items / call_vector_search
  queries,        \* argument of find_shopping_items
  qi,             \* index of the query the for loop is at
  items,          \* the local list items
  result,         \* the local result of the last call_vector_search
  request,        \* the request in flight, << >> when there is none
  response,       \* the response requests.post received, not yet handled
  call,           \* caller and arguments of the call_vector_search in progress
  requests_sent,  \* every request body posted, in order
  responses_got,  \* every response received, in order
  stdout,         \* the lines printed
  exception,      \* the exception that left find_shopping_items
  returned        \* the value find_shopping_items returned

tool_vars == <<tool_pc, queries, qi, items, result, request, response, call,
               requests_sent, responses_got, stdout, exception, returned>>

VARIABLES
  drv_pc,               \* position in test_agent
  runs,                 \* number of calls of test_agent so far
  sessions,             \* ids of the sessions session_service holds
  session,              \* id of the session of the current call
  query,                \* argument of the current call
  submissions,          \* every new_message given to runner.run_async, in order
  stream,               \* the events runner.run_async emits when asked
  pulled,               \* number of events the async for has taken
  final_response_text,  \* the local final_response_text
  agent_stdout          \* the last line test_agent printed

drv_vars == <<drv_pc, runs, sessions, session, query, submissions, stream,
              pulled, final_response_text, agent_stdout>>

VARIABLES
  agent_pc,    \* where the shop agent is in the turn it was given
  generated,   \* the queries the research agent returned
  transcript   \* the messages exchanged in the session, in order

agent_vars == <<agent_pc, generated, transcript>>

vars == <<tool_vars, drv_vars, agent_vars>>

LastOf(s) == s[Len(s)]

Message(from, to, qs) == [from |-> from, to |-> to, queries |-> qs]

NoCall == [caller |-> "none", query |-> "", rows |-> RowsNone]
Call(caller, q, rows) == [caller |-> caller, query |-> q, rows |-> rows]

NoReturn == [type |-> "none", elems |-> << >>]
PyList(s) == [type |-> "list", elems |-> s]

\* as if the function ended with "return items or None"
ReturnValueOrNone(its) == IF its = << >> THEN NoReturn ELSE PyList(its)

\* return items
ReturnValue(its) == PyList(its)

Line(kind, n) == [kind |-> kind, n |-> n]

(* ------------------------- driver values ------------------------------- *)
UserQueries == {"q1", "q2"}
Texts == {"t1", "t2"}

\* a str or None
TextNone == [isNone |-> TRUE, text |-> ""]
Text(t) == [isNone |-> FALSE, text |-> t]
PartTexts == {Text(t) : t \in Texts}

\* content.parts: no part, one part or two
PartLists == SeqsUpTo(PartTexts, 2)

\* An event: is_final_response(), whether content is set, the text of each
\* of content.parts.
Events ==
  [final : BOOLEAN, has_content : {TRUE}, parts : PartLists]
    \cup [final : BOOLEAN, has_content : {FALSE}, parts : {<< >>}]
EventStreams == SeqsUpTo(Events, MaxEvents)

\* f"{final_response_text}"
Format(t) == IF t.isNone THEN "None" ELSE t.text

Init ==
  /\ tool_pc = "idle"
  /\ queries = << >>
  /\ qi = 0
  /\ items = << >>
  /\ result = PyNone
  /\ request = << >>
  /\ response = NoResponse
  /\ call = NoCall
  /\ requests_sent = << >>
  /\ responses_got = << >>
  /\ stdout = << >>
  /\ exception = "none"
  /\ returned = NoReturn
  /\ drv_pc = "idle"
  /\ runs = 0
  /\ sessions = {}
  /\ session = 0
  /\ query = ""
  /\ submissions = << >>
  /\ stream = << >>
  /\ pulled = 0
  /\ final_response_text = TextNone
  /\ agent_stdout = ""
  /\ agent_pc = "idle"
  /\ generated = << >>
  /\ transcript = << >>

(* find_shopping_items(queries) is entered: items = [] and the loop starts. *)
FindShoppingItemsEntered(qs) ==
  /\ tool_pc = "idle"
  /\ tool_pc' = "for"
  /\ queries' = qs
  /\ qi' = 1
  /\ items' = << >>
  /\ UNCHANGED <<result, request, response, call, requests_sent, responses_got,
                 stdout, exception, returned>>

(* find_shopping_items(queries) is called from a notebook cell.            *)
FindShoppingItems(qs) ==
  /\ FindShoppingItemsEntered(qs)
  /\ UNCHANGED <<drv_vars, agent_vars>>

\* as if the request of the next query were posted without waiting for the
\* answer to this one
CallVectorSearchAhead ==
  /\ tool_pc = "for"
  /\ qi <= Len(queries)
  /\ tool_pc' = "post"
  /\ call' = Call("find_shopping_items", queries[qi], Rows(RowLimit))
  /\ request' = Payload(queries[qi], Rows(RowLimit))
  /\ requests_sent' =
       IF qi < Len(queries)
       THEN requests_sent \o <<Payload(queries[qi], Rows(RowLimit)),
                                Payload(queries[qi + 1], Rows(RowLimit))>>
       ELSE Append(requests_sent, Payload(queries[qi], Rows(RowLimit)))
  /\ UNCHANGED <<queries, qi, items, result, response, responses_got,
                 stdout, exception, returned>>
  /\ UNCHANGED <<drv_vars, agent_vars>>

(* for query in queries: call_vector_search(url, query, rows=3) builds the *)
(* payload and posts it.                                                   *)
CallVectorSearch ==
  /\ tool_pc = "for"
  /\ qi <= Len(queries)
  /\ tool_pc' = "post"
  /\ call' = Call("find_shopping_items", queries[qi], Rows(RowLimit))
  /\ request' = Payload(queries[qi], Rows(RowLimit))
  /\ requests_sent' = Append(requests_sent, Payload(queries[qi], Rows(RowLimit)))
  /\ UNCHANGED <<queries, qi, items, result, response, responses_got,
                 stdout, exception, returned>>
  /\ UNCHANGED <<drv_vars, agent_vars>>

(* call_vector_search(url, query, rows) is called on its own: it builds    *)
(* the payload and posts it.                                               *)
CallVectorSearchDirect(q, rows) ==
  /\ tool_pc = "idle"
  /\ tool_pc' = "post"
  /\ call' = Call("direct", q, rows)
  /\ request' = Payload(q, rows)
  /\ requests_sent' = Append(requests_sent, Payload(q, rows))
  /\ UNCHANGED <<queries, qi, items, result, response, responses_got,
                 stdout, exception, returned>>
  /\ UNCHANGED <<drv_vars, agent_vars>>

(* The backend (or the transport) answers the request in flight.           *)
BackendRespond ==
  /\ tool_pc = "post"
  /\ request # << >>
  /\ tool_pc' = "response"
  /\ request' = << >>
  /\ \E resp \in Responses :
       /\ response' = resp
       /\ responses_got' = Append(responses_got, resp)
  /\ UNCHANGED <<queries, qi, items, result, call, requests_sent,
                 stdout, exception, returned>>
  /\ UNCHANGED <<drv_vars, agent_vars>>

(* call_vector_search leaves its try block: it returns the decoded body,   *)
(* or prints the error and returns None; an exception the except clause    *)
(* does not catch leaves find_shopping_items too.                          *)
CallVectorSearchReturn ==
  /\ tool_pc = "response"
  /\ LET raised == TryBlockRaises(response)
         back == IF call.caller = "direct" THEN "call_returned" ELSE "extend"
     IN IF raised = "none"
        THEN /\ tool_pc' = back
             /\ result' = CallVectorSearchResult(response)
             /\ UNCHANGED <<stdout, exception>>
        ELSE IF ExceptRequestException(raised)
        THEN /\ tool_pc' = back
             /\ result' = CallVectorSearchResult(response)
             /\ stdout' = Append(stdout, Line("Error calling the API", 0))
             /\ UNCHANGED exception
        ELSE /\ tool_pc' = "raised"
             /\ exception' = raised
             /\ UNCHANGED <<result, stdout>>
  /\ response' = NoResponse
  /\ UNCHANGED <<queries, qi, items, request, call, requests_sent, responses_got,
                 returned>>
  /\ UNCHANGED <<drv_vars, agent_vars>>

\* as if the line were items.extend(result.get("items", []))
ExtendItemsGet ==
  /\ tool_pc = "extend"
  /\ IF result.isNone
     THEN /\ tool_pc' = "raised"
          /\ exception' = "AttributeError"
          /\ UNCHANGED <<items, qi>>
     ELSE /\ tool_pc' = "for"
          /\ items' = IF "items" \in DOMAIN result.dict
                      THEN ItemsExtend(items, result)
                      ELSE items
          /\ qi' = qi + 1
          /\ UNCHANGED exception
  /\ UNCHANGED <<queries, result, request, response, call, requests_sent,
                 responses_got, stdout, returned>>
  /\ UNCHANGED <<drv_vars, agent_vars>>

(* items.extend(result["items"]): None is not subscriptable, a dict        *)
(* without the key raises KeyError.                                        *)
ExtendItems ==
  /\ tool_pc = "extend"
  /\ IF result.isNone
     THEN /\ tool_pc' = "raised"
          /\ exception' = "TypeError"
          /\ UNCHANGED <<items, qi>>
     ELSE IF "items" \notin DOMAIN result.dict
     THEN /\ tool_pc' = "raised"
          /\ exception' = "KeyError"
          /\ UNCHANGED <<items, qi>>
     ELSE /\ tool_pc' = "for"
          /\ items' = ItemsExtend(items, result)
          /\ qi' = qi + 1
          /\ UNCHANGED exception
  /\ UNCHANGED <<queries, result, request, response, call, requests_sent,
                 responses_got, stdout, returned>>
  /\ UNCHANGED <<drv_vars, agent_vars>>

(* The loop is over: the summary is printed and items is returned.         *)
ReturnItems ==
  /\ tool_pc = "for"
  /\ qi > Len(queries)
  /\ tool_pc' = "returned"
  /\ stdout' = stdout \o <<Line("-----", 0), Line("User queries", Len(queries)),
                           Line("Found", Len(items)), Line("-----", 0)>>
  /\ returned' = ReturnValue(items)
  /\ UNCHANGED <<queries, qi, items, result, request, response, call,
                 requests_sent, responses_got, exception>>
  /\ UNCHANGED <<drv_vars, agent_vars>>

NextTool ==
  \/ \E qs \in QueryLists : FindShoppingItems(qs)
  \/ CallVectorSearch
  \/ \E q \in QueryStrings : \E rows \in RowsArguments : CallVectorSearchDirect(q, rows)
  \/ BackendRespond
  \/ CallVectorSearchReturn
  \/ ExtendItems
  \/ ReturnItems

(* test_agent(query, agent) is called: the query is printed, a session is  *)
(* created in session_service, the Runner and the message are built.       *)
\* as if every call after the first got the id of the session before it
NewSessionIdReused == IF sessions = {} THEN Cardinality(sessions) + 1
                      ELSE Cardinality(sessions)

\* create_session is given no session_id: the service makes up a new one
NewSessionId == Cardinality(sessions) + 1

TestAgent(q) ==
  /\ drv_pc \in {"idle", "done", "raised"}
  /\ runs < MaxRuns
  /\ runs' = runs + 1
  /\ query' = q
  /\ agent_stdout' = ">>> User Query"
  /\ session' = NewSessionId
  /\ sessions' = sessions \cup {NewSessionId}
  /\ final_response_text' = TextNone
  /\ stream' = << >>
  /\ pulled' = 0
  /\ drv_pc' = "run_async"
  /\ UNCHANGED submissions
  /\ UNCHANGED <<tool_vars, agent_vars>>

(* runner.run_async(user_id, session_id, new_message): the message is      *)
(* submitted; the runner will emit some sequence of events.                            *)
\* as if the message were sent a second time
SubmitAgain(subs, sid, q) ==
  Append(Append(subs, [session_id |-> sid, text |-> q]), [session_id |-> sid, text |-> q])

\* run_async(user_id=USER_ID, session_id=session.id, new_message=content)
Submit(subs, sid, q) == Append(subs, [session_id |-> sid, text |-> q])

(* runner.run_async raises instead of emitting events: nothing catches it  *)
(* and it leaves test_agent.                                               *)
RunAsyncRaises ==
  /\ drv_pc = "run_async"
  /\ submissions' = Submit(submissions, session, query)
  /\ drv_pc' = "raised"
  /\ UNCHANGED <<runs, sessions, session, query, stream, pulled,
                 final_response_text, agent_stdout>>
  /\ UNCHANGED <<tool_vars, agent_vars>>

RunAsync ==
  /\ drv_pc = "run_async"
  /\ submissions' = Submit(submissions, session, query)
  /\ \E evs \in EventStreams : stream' = evs
  /\ drv_pc' = "async_for"
  /\ UNCHANGED <<runs, sessions, session, query, pulled, final_response_text,
                 agent_stdout>>
  /\ UNCHANGED <<tool_vars, agent_vars>>

\* as if the text were taken from every event that has parts
EventTextOfAnyEvent(event, old) ==
  IF event.has_content /\ Len(event.parts) > 0
  THEN event.parts[1]
  ELSE old

\* as if the text were taken from the last of content.parts
EventTextLastPart(event, old) ==
  IF event.final /\ event.has_content /\ Len(event.parts) > 0
  THEN event.parts[Len(event.parts)]
  ELSE old

\* if event.is_final_response(): if event.content and event.content.parts:
\*   final_response_text = event.content.parts[0].text
EventText(event, old) ==
  IF event.final /\ event.has_content /\ Len(event.parts) > 0
  THEN event.parts[1]
  ELSE old

\* as if the loop had no break
BreakNever(event) == FALSE

\* the break of the async for, taken under if event.is_final_response()
Break(event) == event.final

(* One turn of the async for: the next event is taken; a final one sets    *)
(* final_response_text and breaks.                                         *)
NextEvent ==
  /\ drv_pc = "async_for"
  /\ pulled < Len(stream)
  /\ pulled' = pulled + 1
  /\ final_response_text' = EventText(stream[pulled + 1], final_response_text)
  /\ drv_pc' = IF Break(stream[pulled + 1]) THEN "print" ELSE "async_for"
  /\ UNCHANGED <<runs, sessions, session, query, submissions, stream, agent_stdout>>
  /\ UNCHANGED <<tool_vars, agent_vars>>

\* as if the driver asked the runner again until it saw a final event
StreamExhaustedRestart ==
  /\ drv_pc = "async_for"
  /\ pulled = Len(stream)
  /\ pulled' = 0
  /\ UNCHANGED <<drv_pc, runs, sessions, session, query, submissions, stream,
                 final_response_text, agent_stdout>>
  /\ UNCHANGED <<tool_vars, agent_vars>>

(* The runner has no more events: the async for ends.                      *)
StreamExhausted ==
  /\ drv_pc = "async_for"
  /\ pulled = Len(stream)
  /\ drv_pc' = "print"
  /\ UNCHANGED <<runs, sessions, session, query, submissions, stream, pulled,
                 final_response_text, agent_stdout>>
  /\ UNCHANGED <<tool_vars, agent_vars>>

(* print(f"<<< Agent Response: {final_response_text}") and return.         *)
PrintResponse ==
  /\ drv_pc = "print"
  /\ agent_stdout' = Format(final_response_text)
  /\ drv_pc' = "done"
  /\ UNCHANGED <<runs, sessions, session, query, submissions, stream, pulled,
                 final_response_text>>
  /\ UNCHANGED <<tool_vars, agent_vars>>

NextDriver ==
  \/ \E q \in UserQueries : TestAgent(q)
  \/ RunAsync
  \/ RunAsyncRaises
  \/ NextEvent
  \/ StreamExhausted
  \/ PrintResponse

(* test_agent(query, shop_agent): the one user turn of the session reaches *)
(* the shop agent.                                                         *)
UserAsks(q) ==
  /\ agent_pc = "idle"
  /\ agent_pc' = "request"
  /\ transcript' = Append(transcript, Message("User", "Shop Agent", <<q>>))
  /\ UNCHANGED <<generated, tool_vars, drv_vars>>

(* "pass it to research_agent tool": AgentTool(agent=research_agent).      *)
ShopAgentCallsResearchAgent ==
  /\ agent_pc = "request"
  /\ agent_pc' = "research"
  /\ transcript' = Append(transcript,
                          Message("Shop Agent", "Research Agent", LastOf(transcript).queries))
  /\ UNCHANGED <<generated, tool_vars, drv_vars>>

(* "and receive 5 generated queries": the research agent returns them.     *)
ResearchAgentReturns(qs) ==
  /\ agent_pc = "research"
  /\ agent_pc' = "queries"
  /\ generated' = qs
  /\ transcript' = Append(transcript, Message("Research Agent", "Shop Agent", qs))
  /\ UNCHANGED <<tool_vars, drv_vars>>

(* "Then, pass the list of queries to find_shopping_items to find items."  *)
ShopAgentCallsFindShoppingItems ==
  /\ agent_pc = "queries"
  /\ agent_pc' = "tool"
  /\ FindShoppingItemsEntered(generated)
  /\ transcript' = Append(transcript,
                          Message("Shop Agent", "find_shopping_items", generated))
  /\ UNCHANGED <<generated, drv_vars>>

(* The tool call is over, with a list or with an exception.                *)
FindShoppingItemsReturns ==
  /\ agent_pc = "tool"
  /\ tool_pc \in {"returned", "raised"}
  /\ agent_pc' = "tool_done"
  /\ transcript' = Append(transcript,
                          Message("find_shopping_items", "Shop Agent", << >>))
  /\ UNCHANGED <<generated, tool_vars, drv_vars>>

(* The final response of the turn: "answer to the user", or whatever the   *)
(* model says instead once it has the queries. The session gets no         *)
(* further user turn: test_agent sends one message to a session of its own.*)
ShopAgentReplies ==
  /\ agent_pc \in {"queries", "tool_done"}
  /\ agent_pc' = "answered"
  /\ transcript' = Append(transcript, Message("Shop Agent", "User", << >>))
  /\ UNCHANGED <<generated, tool_vars, drv_vars>>

NextAgent ==
  \/ \E q \in UserQueries : UserAsks(q)
  \/ ShopAgentCallsResearchAgent
  \/ \E qs \in QueryLists \ {<< >>} : ResearchAgentReturns(qs)
  \/ ShopAgentCallsFindShoppingItems
  \/ CallVectorSearch
  \/ BackendRespond
  \/ CallVectorSearchReturn
  \/ ExtendItems
  \/ ReturnItems
  \/ FindShoppingItemsReturns
  \/ ShopAgentReplies

Next == NextTool \/ NextDriver \/ NextAgent

Spec == Init /\ [][Next]_vars

SpecTool == Init /\ [][NextTool]_vars

SpecDriver == Init /\ [][NextDriver]_vars

SpecAgent == Init /\ [][NextAgent]_vars

\* the event loop keeps running test_agent: a turn of the async for, its end
\* and the print that follows are taken when they can be
SpecDriverFair ==
  /\ SpecDriver
  /\ WF_vars(NextEvent)
  /\ WF_vars(StreamExhausted)
  /\ WF_vars(PrintResponse)

(* ------------------- definitions used by the properties ---------------- *)
\* the call for this response gave find_shopping_items an absent result
Absent(resp) == TryBlockRaises(resp) # "none"

\* the items array of the body the backend sent
HasItems(resp) == \E n \in DOMAIN resp.members : resp.members[n][1] = "items"
BackendItems(resp) ==
  resp.members[CHOOSE n \in DOMAIN resp.members : resp.members[n][1] = "items"][2]

\* the items obtained for the n-th query: those of the n-th response, which
\* answered the request carrying queries[n]
ObtainedFor(n) == BackendItems(responses_got[n])

RECURSIVE Offset(_)
Offset(n) == IF n <= 1 THEN 0 ELSE Offset(n - 1) + Len(ObtainedFor(n - 1))

RECURSIVE ConcatSuccessful(_)
ConcatSuccessful(rs) ==
  IF rs = << >> THEN << >>
  ELSE (IF Absent(rs[1]) THEN << >> ELSE BackendItems(rs[1])) \o ConcatSuccessful(Tail(rs))

Finished == tool_pc \in {"raised", "returned"}
Returned == tool_pc = "returned"

(* C1: when the backend call of some queries of a batch fails (absent      *)
(* result), find_shopping_items still completes normally and returns the   *)
(* concatenation of the items of the non-failing queries.                  *)
C1_PartialFailureTolerated ==
  (/\ Finished
   /\ \A n \in DOMAIN responses_got :
        Absent(responses_got[n]) \/ HasItems(responses_got[n]))
  => /\ Returned
     /\ Len(responses_got) = Len(queries)
     /\ returned = PyList(ConcatSuccessful(responses_got))

(* C2: the returned batch is in query order: for i < j every item obtained *)
(* for queries[i] stands before every item obtained for queries[j].        *)
C2_QueryOrder ==
  (Returned /\ queries # << >>)
  => \A i \in DOMAIN queries : \A j \in DOMAIN queries : i < j =>
       /\ requests_sent[i][1] = <<"query", JsonString(queries[i])>>
       /\ requests_sent[j][1] = <<"query", JsonString(queries[j])>>
       /\ \A k \in DOMAIN ObtainedFor(i) : \A l \in DOMAIN ObtainedFor(j) :
            /\ Offset(i) + k < Offset(j) + l
            /\ Offset(j) + l <= Len(returned.elems)
            /\ returned.elems[Offset(i) + k] = ObtainedFor(i)[k]
            /\ returned.elems[Offset(j) + l] = ObtainedFor(j)[l]

C2_Witness ==
  /\ Returned
  /\ Len(queries) = 2
  /\ ObtainedFor(1) = <<2, 1>>
  /\ ObtainedFor(2) = <<1, 1, 2>>
  /\ returned.elems = <<2, 1, 1, 1, 2>>

(* C6: find_shopping_items([]) returns an empty batch.                     *)
C6_EmptyQueries ==
  (tool_pc # "idle" /\ call.caller # "direct" /\ queries = << >>)
  => /\ tool_pc \in {"for", "returned"}
     /\ requests_sent = << >>
     /\ Returned => returned = PyList(<< >>)

C6_Witness == Returned /\ queries = << >> /\ returned.elems = << >>

RECURSIVE SumLen(_)
SumLen(rs) == IF rs = << >> THEN 0 ELSE Len(BackendItems(rs[1])) + SumLen(Tail(rs))

(* C7: nothing is deduplicated: when every call succeeds the batch is as   *)
(* long as the per-query result lists together, also for a repeated query  *)
(* or a repeated item.                                                     *)
C7_NoDedup ==
  Returned => Len(returned.elems) = SumLen(responses_got)

C7_Witness ==
  /\ Returned
  /\ Len(queries) = 2
  /\ queries[1] = queries[2]
  /\ ObtainedFor(1) = <<1, 2, 1>>
  /\ ObtainedFor(2) = <<1, 2, 1>>
  /\ Len(returned.elems) = 6
  /\ SubSeq(returned.elems, 1, 3) = ObtainedFor(1)

(* C8: the segment of a query holds exactly the items the backend returned *)
(* for it, in the backend's order.                                         *)
C8_SegmentExact ==
  Returned =>
    /\ Len(returned.elems) = Offset(Len(queries) + 1)
    /\ \A i \in DOMAIN queries :
         SubSeq(returned.elems, Offset(i) + 1, Offset(i) + Len(ObtainedFor(i)))
           = ObtainedFor(i)

C8_Witness ==
  /\ Returned
  /\ Len(queries) = 1
  /\ ObtainedFor(1) = <<2, 1, 2>>
  /\ returned.elems = <<2, 1, 2>>

\* the call of call_vector_search for the last response has just returned
CallReturned == tool_pc \in {"extend", "call_returned"}
RequestExceptions == {"ConnectionError", "HTTPError", "JSONDecodeError"}
ErrorReported == stdout # << >> /\ LastOf(stdout).kind = "Error calling the API"

C9_BodyUnchanged ==
  CallReturned =>
    LET r == LastOf(responses_got)
    IN (~r.transport_error /\ r.status_code \in 200..299 /\ r.json)
         => /\ ~result.isNone
            /\ DOMAIN result.dict = {r.members[n][1] : n \in DOMAIN r.members}
            /\ \A n \in DOMAIN r.members : result.dict[r.members[n][1]] = r.members[n][2]

C9_Witness ==
  /\ CallReturned
  /\ LastOf(responses_got).status_code = 200
  /\ LastOf(responses_got).members = << <<"error", << >> >>, <<"items", <<2>> >> >>
  /\ ~result.isNone
  /\ result.dict["items"] = <<2>>

(* C10: find_shopping_items returns a dict with "status" = "success" and   *)
(* "items" holding the items found.                                        *)
C10_ReturnsStatusDict ==
  Returned =>
    /\ returned.type = "dict"
    /\ returned.status = "success"
    /\ returned.items = items

\* the calls of call_vector_search started so far
CallsStarted ==
  IF tool_pc = "idle" THEN 0
  ELSE IF call.caller = "direct" THEN 1
  ELSE IF tool_pc \in {"for", "returned"} THEN qi - 1
  ELSE qi

\* the body the backend is to receive for a query and a row limit
ExpectedBody(q, rows) ==
  << <<"query", <<"str", q>> >>,
     <<"rows", <<"lit", IF rows.isNone THEN "null" ELSE ToString(rows.n)>> >>,
     <<"dataset_id", <<"str", "mercari3m_mm">> >>,
     <<"use_dense", <<"lit", "true">> >>,
     <<"use_sparse", <<"lit", "true">> >>,
     <<"rrf_alpha", <<"lit", "0.5">> >>,
     <<"use_rerank", <<"lit", "true">> >> >>

(* C13: every call of call_vector_search posts exactly one request, also   *)
(* when it fails; its body carries the query, the row limit (null when     *)
(* absent) and the fixed flags.                                            *)
C13_OneRequestPerCall ==
  /\ Len(requests_sent) = CallsStarted
  /\ call.caller = "direct" =>
       requests_sent = <<ExpectedBody(call.query, call.rows)>>
  /\ call.caller = "find_shopping_items" =>
       \A n \in DOMAIN requests_sent :
         requests_sent[n] = ExpectedBody(queries[n], Rows(3))

C13_Witness ==
  /\ tool_pc = "call_returned"
  /\ call.caller = "direct"
  /\ call.rows.isNone
  /\ result = PyNone
  /\ Len(requests_sent) = 1
  /\ requests_sent[1][2] = <<"rows", <<"lit", "null">> >>

(* C15: find_shopping_items calls call_vector_search once per query, in    *)
(* input order, with row limit 3, whatever the outcome of the calls.       *)
C15_OneCallPerQuery ==
  (Finished /\ call.caller # "direct")
  => /\ Len(requests_sent) = Len(queries)
     /\ \A n \in DOMAIN requests_sent :
          /\ requests_sent[n][1] = <<"query", <<"str", queries[n]>> >>
          /\ requests_sent[n][2] = <<"rows", <<"lit", "3">> >>

\* a response that is a success for call_vector_search but has no items
Malformed(resp) == ~Absent(resp) /\ ~HasItems(resp)

(* C17: a decoded body without items is not handled: it is the last        *)
(* response of the batch, a KeyError leaves find_shopping_items, nothing   *)
(* is returned and no later query is dispatched.                           *)
C17_MissingItemsEscapes ==
  \A n \in DOMAIN responses_got :
    (Malformed(responses_got[n]) /\ call.caller = "find_shopping_items")
    => /\ n = Len(responses_got)
       /\ Len(requests_sent) = n
       /\ returned = NoReturn
       /\ tool_pc \in {"response", "extend", "raised"}
       /\ tool_pc = "raised" => exception = "KeyError"

C17_Witness ==
  /\ tool_pc = "raised"
  /\ exception = "KeyError"
  /\ Len(queries) = 2
  /\ Len(responses_got) = 2
  /\ items = <<1, 2>>
  /\ Malformed(responses_got[2])
  /\ returned = NoReturn

(* C18: the queries are dispatched one after the other: at most one        *)
(* request is in flight, and a request is posted only when every earlier   *)
(* one has been answered and its answer handled.                           *)
C18_Sequential ==
  /\ Len(requests_sent) - Len(responses_got) \in {0, 1}
  /\ (request # << >>) <=> (Len(requests_sent) = Len(responses_got) + 1)
  /\ request # << >> => (response = NoResponse /\ request = LastOf(requests_sent))

C18_Witness ==
  /\ tool_pc = "post"
  /\ qi = 2
  /\ request # << >>
  /\ Len(requests_sent) = 2
  /\ Len(responses_got) = 1

(* ---------------------- properties of the driver ----------------------- *)
HasFinal(s) == \E n \in DOMAIN s : s[n].final
FirstFinal(s) ==
  CHOOSE n \in DOMAIN s : s[n].final /\ \A m \in 1..(n - 1) : ~s[m].final
TextOf(event) ==
  IF event.has_content /\ event.parts # << >> THEN event.parts[1] ELSE TextNone
LoopOver == drv_pc \in {"print", "done"}

(* C3: the driver yields the text of the first final event of the emitted  *)
(* sequence, whatever the later events are.                                *)
C3_FirstFinalText ==
  (LoopOver /\ HasFinal(stream))
  => /\ final_response_text = TextOf(stream[FirstFinal(stream)])
     /\ drv_pc = "done" =>
          agent_stdout = Format(TextOf(stream[FirstFinal(stream)]))

C3_Witness ==
  /\ drv_pc = "done"
  /\ Len(stream) = 2
  /\ stream[1].final /\ stream[1].parts = <<Text("t1")>>
  /\ stream[2].final /\ stream[2].parts = <<Text("t2")>>
  /\ agent_stdout = "t1"

(* C4: when the sequence ends without a final event the driver ends        *)
(* normally with an absent result.                                         *)
C4_NoFinalGivesNone ==
  (LoopOver /\ ~HasFinal(stream))
  => /\ final_response_text = TextNone
     /\ pulled = Len(stream)
     /\ drv_pc = "done" => agent_stdout = "None"

C4_Witness ==
  /\ drv_pc = "done"
  /\ Len(stream) = 2
  /\ ~HasFinal(stream)
  /\ stream[1].parts = <<Text("t1")>>
  /\ final_response_text = TextNone

\* the message of the current call has been submitted once, under its session
SubmittedOnce ==
  /\ Len(submissions) = (IF drv_pc = "run_async" THEN runs - 1 ELSE runs)
  /\ drv_pc \notin {"idle", "run_async"} =>
       LastOf(submissions) = [session_id |-> session, text |-> query]

\* within one call the driver does not go back to submitting or iterating
NoReentry ==
  /\ (runs' = runs /\ drv_pc \in {"print", "done", "raised"})
       => drv_pc' \notin {"run_async", "async_for"}
  /\ drv_pc' = "async_for" => drv_pc \in {"run_async", "async_for"}
  /\ (runs' = runs /\ drv_pc # "run_async") => submissions' = submissions

(* C11: within one run the query is submitted exactly once, as one user    *)
(* turn, and the driver never goes back to awaiting the final event once   *)
(* it is done or the submission has failed.                                *)
C11_SubmittedOnceNoReentry == [][SubmittedOnce' /\ NoReentry]_vars

C11_Witness ==
  /\ drv_pc = "done"
  /\ runs = 2
  /\ submissions = <<[session_id |-> 1, text |-> "q1"], [session_id |-> 2, text |-> "q2"]>>
  /\ Len(stream) = 2

(* C12: every call of the driver creates exactly one new session and       *)
(* submits under its id; no id serves two calls.                           *)
C12_FreshSession ==
  /\ Cardinality(sessions) = runs
  /\ \A n \in DOMAIN submissions : submissions[n].session_id \in sessions
  /\ \A m \in DOMAIN submissions : \A n \in DOMAIN submissions :
       m # n => submissions[m].session_id # submissions[n].session_id
  /\ drv_pc # "idle" => session \in sessions
  /\ drv_pc \notin {"idle", "run_async"} => LastOf(submissions).session_id = session

C12_Witness ==
  /\ drv_pc = "done"
  /\ runs = 2
  /\ Len(submissions) = 2
  /\ submissions[1].text = submissions[2].text
  /\ submissions[1].session_id # submissions[2].session_id

\* the number of events the driver is to take from a sequence
ExpectedPulled(s) == IF HasFinal(s) THEN FirstFinal(s) ELSE Len(s)

(* C16: the events are taken in emission order up to the first final one,  *)
(* or all of them when none is final; nothing behind the first final       *)
(* event is taken.                                                         *)
C16_StopsAtFirstFinal ==
  /\ drv_pc = "async_for" =>
       /\ pulled <= ExpectedPulled(stream)
       /\ \A n \in 1..pulled : ~stream[n].final
  /\ LoopOver => pulled = ExpectedPulled(stream)

C16_Witness ==
  /\ drv_pc = "done"
  /\ Len(stream) = 2
  /\ stream[1].final
  /\ pulled = 1

(* C19: for every finite event sequence the driver, once iterating,        *)
(* reaches its end.                                                        *)
C19_Terminates == (drv_pc = "async_for") ~> (drv_pc = "done")

C19_Witness ==
  /\ drv_pc = "done"
  /\ Len(stream) = 2
  /\ ~stream[1].final
  /\ stream[2].final
  /\ pulled = 2

\* an event without content, or with no parts
NoText(event) == ~event.has_content \/ event.parts = << >>

(* C20: when the first final event has no content or no parts the driver   *)
(* stops there with an absent result; no other event's text is used.       *)
C20_EmptyFinalGivesNone ==
  (LoopOver /\ HasFinal(stream) /\ NoText(stream[FirstFinal(stream)]))
  => /\ final_response_text = TextNone
     /\ pulled = FirstFinal(stream)
     /\ drv_pc = "done" => agent_stdout = "None"

C20_Witness ==
  /\ drv_pc = "done"
  /\ Len(stream) = 2
  /\ ~stream[1].final /\ stream[1].parts = <<Text("t1")>>
  /\ stream[2].final /\ stream[2].has_content /\ stream[2].parts = << >>
  /\ final_response_text = TextNone

SeveralParts(event) == event.has_content /\ Len(event.parts) > 1

(* C21: when the first final event has several content parts the driver's  *)
(* result is the text of the first part alone, whatever the other parts    *)
(* hold.                                                                   *)
C21_FirstPartOnly ==
  (LoopOver /\ HasFinal(stream) /\ SeveralParts(stream[FirstFinal(stream)]))
  => /\ final_response_text = stream[FirstFinal(stream)].parts[1]
     /\ pulled = FirstFinal(stream)
     /\ drv_pc = "done" =>
          agent_stdout = stream[FirstFinal(stream)].parts[1].text

C21_Witness ==
  /\ drv_pc = "done"
  /\ Len(stream) = 1
  /\ stream[1].final /\ stream[1].parts = <<Text("t1"), Text("t2")>>
  /\ final_response_text = Text("t1")
  /\ agent_stdout = "t1"

(* C14: find_shopping_items is invoked only after the research agent has   *)
(* returned its queries to the shop agent, the shop agent has asked the    *)
(* user about them and the user has answered.                              *)
C14_ToolAfterConfirmation ==
  \A k \in DOMAIN transcript :
    (transcript[k].from = "Shop Agent" /\ transcript[k].to = "find_shopping_items")
    => \E h \in 1..k : \E i \in 1..k : \E j \in 1..k :
         /\ h < i /\ i < j /\ j < k
         /\ transcript[h].from = "Research Agent" /\ transcript[h].to = "Shop Agent"
         /\ transcript[i].from = "Shop Agent" /\ transcript[i].to = "User"
         /\ transcript[j].from = "User" /\ transcript[j].to = "Shop Agent"

TypeOK ==
  /\ tool_pc \in {"idle", "for", "post", "response", "extend", "raised", "returned",
                  "call_returned"}
  /\ queries \in QueryLists
  /\ drv_pc \in {"idle", "run_async", "async_for", "print", "done", "raised"}
  /\ stream \in EventStreams
  /\ agent_pc \in {"idle", "request", "research", "queries", "tool", "tool_done",
                   "answered"}
  /\ generated \in QueryLists
====
